---- MODULE Spec2Model ----
(***************************************************************************)
(* Model of app.py (CBKM Pontoon Design Evaluator): one run of the script  *)
(* on an uploaded document.  The text of the document is a sequence of     *)
(* lexemes; the parameter extraction (lines 56-114) applies the regular    *)
(* expressions of the source to it, and the compliance loop (lines         *)
(* 125-166) and the summary (lines 181-194) work on the extracted map.     *)
(* Python floats are IEEE 754 binary64 numbers, computed bit by bit with   *)
(* round-to-nearest-even.                                                  *)
(***************************************************************************)
EXTENDS Integers, Sequences, FiniteSets, TLC

(***************************************************************************)
(* Bounds of the model.                                                    *)
(***************************************************************************)
\* Number of blocks of notes a document is made of.
MaxPhrases == 2

(***************************************************************************)
(* Python float: IEEE 754 binary64, non-negative values only.              *)
(* A number is [z, e, m]: zero, or m[1]=1 and the value is                 *)
(* sum_i m[i] * 2^(e-i+1) with 53 mantissa bits m[1..53].                  *)
(***************************************************************************)
RECURSIVE BitLen(_)
BitLen(n) == IF n = 0 THEN 0 ELSE 1 + BitLen(n \div 2)

RECURSIVE Pow2(_)
Pow2(k) == IF k = 0 THEN 1 ELSE 2 * Pow2(k - 1)

RECURSIVE Bin(_)
Bin(n) == IF n = 0 THEN <<>> ELSE Bin(n \div 2) \o <<n % 2>>

DZero == [z |-> TRUE, e |-> 0, m |-> <<>>]

\* k quotient bits of r/D by long division (r < D), and the last remainder.
\* The bits are produced half by half, the remainder of the first half
\* carried into the second.
RECURSIVE LongDiv(_, _, _)
LongDiv(r, D, k) ==
    IF k = 0 THEN [bits |-> <<>>, rem |-> r]
    ELSE IF k = 1
    THEN LET b == IF 2 * r >= D THEN 1 ELSE 0
         IN  [bits |-> <<b>>, rem |-> 2 * r - b * D]
    ELSE LET hi == LongDiv(r, D, k \div 2)
             lo == LongDiv(hi.rem, D, k - (k \div 2))
         IN  [bits |-> hi.bits \o lo.bits, rem |-> lo.rem]

\* bits * c + cin, most significant bit first; c is the carry out of the top
\* bit.  The low half is computed first and its carry goes into the high half
\* (the test on lo.c only fixes that order of evaluation: a carry is never
\* negative).
RECURSIVE MulAdd(_, _, _)
MulAdd(b, c, cin) ==
    IF b = <<>> THEN [m |-> <<>>, c |-> cin]
    ELSE IF Len(b) = 1
    THEN LET s == b[1] * c + cin
         IN  [m |-> <<s % 2>>, c |-> s \div 2]
    ELSE LET h  == Len(b) \div 2
             lo == MulAdd(SubSeq(b, h + 1, Len(b)), c, cin)
         IN  IF lo.c < 0 THEN lo
             ELSE LET hi == MulAdd(SubSeq(b, 1, h), c, lo.c)
                  IN  [m |-> hi.m \o lo.m, c |-> hi.c]

\* bits + 1.
IncBits(b) == MulAdd(b, 1, 1)

\* bits * c.
MulBits(b, c) == MulAdd(b, c, 0)

\* Round-to-nearest, ties-to-even: raw is 53 mantissa bits and a guard bit.
RoundEven(e, raw, sticky) ==
    LET m   == SubSeq(raw, 1, 53)
        up  == raw[54] = 1 /\ (sticky \/ m[53] = 1)
        inc == IncBits(m)
    IN  IF ~up THEN [z |-> FALSE, e |-> e, m |-> m]
        ELSE IF inc.c = 1
             THEN [z |-> FALSE, e |-> e + 1, m |-> <<1>> \o SubSeq(inc.m, 1, 52)]
             ELSE [z |-> FALSE, e |-> e, m |-> inc.m]

\* Smallest k with a * 2^k >= b (a > 0).
RECURSIVE ShiftUp(_, _)
ShiftUp(a, b) == IF a >= b THEN 0 ELSE 1 + ShiftUp(2 * a, b)

\* The float nearest to a/b, for integers a >= 0 and b > 0: Python's
\* int / float, int / int, and float("a.b") with b a power of ten.
DivRound(a, b) ==
    IF a = 0 THEN DZero
    ELSE LET up == ShiftUp(a, b)
             e  == IF a >= b THEN BitLen(a \div b) - 1 ELSE 0 - up
             N  == IF a >= b THEN a ELSE a * Pow2(up)
             D  == IF a >= b THEN b * Pow2(e) ELSE b
             ld == LongDiv(N - D, D, 53)
         IN  RoundEven(e, <<1>> \o ld.bits, ld.rem # 0)

\* The float of an integer below 2^53: exact.
DFromInt(n) == DivRound(n, 1)

\* x * c for a float x and a small positive integer c, rounded.
MulRound(x, c) ==
    IF x.z THEN DZero
    ELSE LET p    == MulBits(x.m, c)
             hi   == Bin(p.c)
             full == hi \o p.m \o <<0>>
         IN  RoundEven(x.e + Len(hi), SubSeq(full, 1, 54),
                       \E i \in 55..Len(full) : full[i] = 1)

\* x <= y on floats.
DLe(x, y) ==
    IF x.z THEN TRUE
    ELSE IF y.z THEN FALSE
    ELSE IF x.e # y.e THEN x.e < y.e
    ELSE \/ x.m = y.m
         \/ \E i \in 1..53 : /\ x.m[i] < y.m[i]
                             /\ \A j \in 1..(i - 1) : x.m[j] = y.m[j]

DLt(x, y) == DLe(x, y) /\ x # y

(***************************************************************************)
(* The document text (full_text, lines 45-48) as a sequence of lexemes:    *)
(* a word or punctuation mark written as in the drawing, a run of decimal  *)
(* digits, or one whitespace character.                                    *)
(***************************************************************************)
W(w) == [k |-> "w", w |-> w, d |-> <<>>]
N(d) == [k |-> "n", w |-> "", d |-> d]
SP == [k |-> "s", w |-> " ", d |-> <<>>]
NL == [k |-> "s", w |-> "\n", d |-> <<>>]

\* Python str values are sequences of characters.
DigitChars == <<"0", "1", "2", "3", "4", "5", "6", "7", "8", "9">>

DigitVal(c) == (CHOOSE i \in 1..10 : DigitChars[i] = c) - 1

\* The characters of the lexemes toks (inside a capture group the words are
\* single characters).
RECURSIVE Chars(_)
Chars(toks) ==
    IF toks = <<>> THEN <<>>
    ELSE LET t == Head(toks)
         IN  (IF t.k = "n" THEN [i \in 1..Len(t.d) |-> DigitChars[t.d[i] + 1]]
              ELSE <<t.w>>) \o Chars(Tail(toks))

(***************************************************************************)
(* Regular expressions (re.search with re.I | re.DOTALL) over lexemes.     *)
(* A pattern is a sequence of elements: a literal, \s*, .*? or \d+, with   *)
(* the capture groups given as ranges of elements.                         *)
(***************************************************************************)
Lit(w) == [e |-> "lit", w |-> w]
Ws == [e |-> "ws", w |-> ""]
Lazy == [e |-> "lazy", w |-> ""]
Digits == [e |-> "digits", w |-> ""]

\* re.I: the lexemes that occur in both cases.
Upper(w) == IF w = "t" THEN "T" ELSE IF w = "f" THEN "F" ELSE w

\* Where a literal of a pattern matches a part of a longer lexeme at the place
\* the pattern needs it: "m" at the start of a unit or word (re.I), "MASS" at
\* the end of "COATING MASS".
LitInside ==
    {<<"m", x>> : x \in {"mm", "m/s", "MPa", "MIN", "MAX", "MASS", "MINIMUM",
                         "MINIMUM GRADE"}}
    \cup {<<"MASS", "COATING MASS">>}

LitMatch(lit, tok) ==
    /\ tok.k = "w"
    /\ \/ Upper(tok.w) = Upper(lit)
       \/ <<lit, tok.w>> \in LitInside

SetMax(S) == CHOOSE x \in S : \A y \in S : x >= y

\* Number of whitespace lexemes at text[j], text[j+1], ...
WsRun(text, j) ==
    SetMax({n \in 0..(Len(text) + 1 - j) :
                \A i \in j..(j + n - 1) : text[i].k = "s"})

\* The match among ms (matches of the rest of a pattern at different
\* positions) that starts first, or last; <<>> if there is none.
First(ms) ==
    IF ms \subseteq {<<>>} THEN <<>>
    ELSE CHOOSE r \in ms \ {<<>>} : \A q \in ms \ {<<>>} : r[1] <= q[1]

Last(ms) ==
    IF ms \subseteq {<<>>} THEN <<>>
    ELSE CHOOSE r \in ms \ {<<>>} : \A q \in ms \ {<<>>} : r[1] >= q[1]

Then(j, rest) == IF rest = <<>> THEN <<>> ELSE <<j>> \o rest

\* The match of elements p.. of els at position j of text: <<>> if there is
\* none, else the start position of each element followed by the end
\* position.  A quantifier takes the first of its alternatives (longest first
\* for \s*, shortest first for .*?) with which the rest of the pattern matches.
RECURSIVE MatchAt(_, _, _, _)
MatchAt(els, text, p, j) ==
    IF p > Len(els) THEN <<j>>
    ELSE LET el == els[p]
         IN  CASE el.e = "lit" ->
                    IF j <= Len(text) /\ LitMatch(el.w, text[j])
                    THEN Then(j, MatchAt(els, text, p + 1, j + 1)) ELSE <<>>
               [] el.e = "digits" ->
                    IF j <= Len(text) /\ text[j].k = "n"
                    THEN Then(j, MatchAt(els, text, p + 1, j + 1)) ELSE <<>>
               [] el.e = "ws" ->
                    Then(j, Last({MatchAt(els, text, p + 1, j + k) :
                                      k \in 0..WsRun(text, j)}))
               [] el.e = "lazy" ->
                    Then(j, First({MatchAt(els, text, p + 1, j + k) :
                                       k \in 0..(Len(text) + 1 - j)}))

\* re.search: the match at the leftmost position that has one.
Search(pat, text) ==
    First({MatchAt(pat.els, text, 1, j) : j \in 1..Len(text)})

\* m.group(g) as a str.
Group(pat, text, m, g) ==
    Chars(SubSeq(text, m[pat.groups[g][1]], m[pat.groups[g][2] + 1] - 1))

\* (\d+\.\d+) and (\d+) as pattern elements.
DecimalEls == <<Digits, Lit("."), Digits>>

(***************************************************************************)
(* Python conversions of the captured strings.                             *)
(***************************************************************************)
RECURSIVE PyInt(_)
PyInt(s) == IF s = <<>> THEN 0
            ELSE 10 * PyInt(SubSeq(s, 1, Len(s) - 1)) + DigitVal(s[Len(s)])

RECURSIVE Pow10(_)
Pow10(k) == IF k = 0 THEN 1 ELSE 10 * Pow10(k - 1)

\* float("i.f"): the float nearest to the decimal.
PyFloat(s) ==
    LET dot == CHOOSE i \in 1..Len(s) : s[i] = "."
        ip  == SubSeq(s, 1, dot - 1)
        fp  == SubSeq(s, dot + 1, Len(s))
    IN  DivRound(PyInt(ip \o fp), Pow10(Len(fp)))

\* s.replace(c, '')
Remove(s, c) == SelectSeq(s, LAMBDA x : x # c)

\* sub in s
Contains(s, sub) ==
    \E i \in 1..(Len(s) - Len(sub) + 1) : SubSeq(s, i, i + Len(sub) - 1) = sub

(***************************************************************************)
(* Values of the params dict: int, float or str; NoneV is Python's None.   *)
(***************************************************************************)
IntV(n) == [t |-> "int", n |-> n, f |-> DZero, s |-> <<>>]
FloatV(f) == [t |-> "float", n |-> 0, f |-> f, s |-> <<>>]
StrV(s) == [t |-> "str", n |-> 0, f |-> DZero, s |-> s]
NoneV == [t |-> "none", n |-> 0, f |-> DZero, s |-> <<>>]

\* params[k] = v
Put(p, k, v) == [x \in DOMAIN p \cup {k} |-> IF x = k THEN v ELSE p[x]]

\* params.get(k)
Get(p, k) == IF k \in DOMAIN p THEN p[k] ELSE NoneV

(***************************************************************************)
(* The patterns of the parameter extraction, lines 58-113.                 *)
(***************************************************************************)
\* r"LIVE LOAD.*?(\d+\.\d+)\s*kPa.*?POINT LOAD.*?(\d+\.\d+)\s*kN"
LiveLoadPattern ==
    [els |-> <<Lit("LIVE LOAD"), Lazy>> \o DecimalEls \o <<Ws, Lit("kPa"), Lazy,
               Lit("POINT LOAD"), Lazy>> \o DecimalEls \o <<Ws, Lit("kN")>>,
     groups |-> << <<3, 5>>, <<11, 13>> >>]

\* r"V100\s*=\s*(\d+)\s*m/s"
WindPattern ==
    [els |-> <<Lit("V100"), Ws, Lit("="), Ws, Digits, Ws, Lit("m/s")>>,
     groups |-> << <<5, 5>> >>]

\* r"WAVE HEIGHT\s*<\s*(\d+)\s*mm"
WavePattern ==
    [els |-> <<Lit("WAVE HEIGHT"), Ws, Lit("<"), Ws, Digits, Ws, Lit("mm")>>,
     groups |-> << <<5, 5>> >>]

\* r"VELOCITY.*?<\s*(\d+\.\d+)\s*m/s"
VelocityPattern ==
    [els |-> <<Lit("VELOCITY"), Lazy, Lit("<"), Ws>> \o DecimalEls
               \o <<Ws, Lit("m/s")>>,
     groups |-> << <<5, 7>> >>]

\* r"DEBRIS LOADS.*?(\d+\.\d+)\s*m.*?(\d+\.\d+)\s*TONNE"
DebrisPattern ==
    [els |-> <<Lit("DEBRIS LOADS"), Lazy>> \o DecimalEls \o <<Ws, Lit("m"), Lazy>>
               \o DecimalEls \o <<Ws, Lit("TONNE")>>,
     groups |-> << <<3, 5>>, <<9, 11>> >>]

\* r"LENGTH\s*=\s*(\d+\.\d+)\s*m"
LengthPattern ==
    [els |-> <<Lit("LENGTH"), Ws, Lit("="), Ws>> \o DecimalEls \o <<Ws, Lit("m")>>,
     groups |-> << <<5, 7>> >>]

\* r"BEAM\s*=\s*(\d+\.\d+)\s*m"
BeamPattern ==
    [els |-> <<Lit("BEAM"), Ws, Lit("="), Ws>> \o DecimalEls \o <<Ws, Lit("m")>>,
     groups |-> << <<5, 7>> >>]

\* r"MASS\s*=\s*(\d+,\d+)\s*kg"
MassPattern ==
    [els |-> <<Lit("MASS"), Ws, Lit("="), Ws, Digits, Lit(","), Digits, Ws,
               Lit("kg")>>,
     groups |-> << <<5, 7>> >>]

\* r"DEAD LOAD ONLY\s*=\s*(\d+)-(\d+)mm"
FreeboardDeadPattern ==
    [els |-> <<Lit("DEAD LOAD ONLY"), Ws, Lit("="), Ws, Digits, Lit("-"), Digits,
               Lit("mm")>>,
     groups |-> << <<5, 5>>, <<7, 7>> >>]

\* r"MIN\s*(\d+)\s*mm"
FreeboardCriticalPattern ==
    [els |-> <<Lit("MIN"), Ws, Digits, Ws, Lit("mm")>>,
     groups |-> << <<3, 3>> >>]

\* r"DECK SLOPE\s*=\s*1:(\d+)"
DeckSlopePattern ==
    [els |-> <<Lit("DECK SLOPE"), Ws, Lit("="), Ws, Lit("1:"), Digits>>,
     groups |-> << <<6, 6>> >>]

\* r"PONTOON CONCRETE.*?(\d+)\s*MPa"
ConcreteStrengthPattern ==
    [els |-> <<Lit("PONTOON CONCRETE"), Lazy, Digits, Ws, Lit("MPa")>>,
     groups |-> << <<3, 3>> >>]

\* r"COVER.*?(\d+)\s*mm"
ConcreteCoverPattern ==
    [els |-> <<Lit("COVER"), Lazy, Digits, Ws, Lit("mm")>>,
     groups |-> << <<3, 3>> >>]

\* r"COATING MASS.*?(\d+)\s*g/sqm"
GalvanizingPattern ==
    [els |-> <<Lit("COATING MASS"), Lazy, Digits, Ws, Lit("g/sqm")>>,
     groups |-> << <<3, 3>> >>]

\* r"MINIMUM GRADE\s*(\d+\s*T\d+)"
AluminiumPattern ==
    [els |-> <<Lit("MINIMUM GRADE"), Ws, Digits, Ws, Lit("T"), Digits>>,
     groups |-> << <<3, 6>> >>]

\* r"MINIMUM\s*(F\d+)"
TimberPattern ==
    [els |-> <<Lit("MINIMUM"), Ws, Lit("F"), Digits>>,
     groups |-> << <<3, 4>> >>]

\* r"FIXINGS TO BE\s*(\d+)\s*GRADE"
FixingsPattern ==
    [els |-> <<Lit("FIXINGS TO BE"), Ws, Digits, Ws, Lit("GRADE")>>,
     groups |-> << <<3, 3>> >>]

\* r"MAX\s*(\d+)mm\s*SCOUR"
ScourPattern ==
    [els |-> <<Lit("MAX"), Ws, Digits, Lit("mm"), Ws, Lit("SCOUR")>>,
     groups |-> << <<3, 3>> >>]

\* r"TOLERANCE.*?(\d+)mm"
TolerancePattern ==
    [els |-> <<Lit("TOLERANCE"), Lazy, Digits, Lit("mm")>>,
     groups |-> << <<3, 3>> >>]

\* r"COHESION\s*=\s*(\d+)kPa"
CohesionPattern ==
    [els |-> <<Lit("COHESION"), Ws, Lit("="), Ws, Digits, Lit("kPa")>>,
     groups |-> << <<5, 5>> >>]

(***************************************************************************)
(* Parameter extraction, lines 56-114: one `if m := re.search(...)` block  *)
(* per operator, applied in the order of the source.                       *)
(***************************************************************************)
\* Mutant of ExtractLiveLoad: each half of the phrase matched on its own.
UniformOnlyPattern ==
    [els |-> <<Lit("LIVE LOAD"), Lazy>> \o DecimalEls \o <<Ws, Lit("kPa")>>,
     groups |-> << <<3, 5>> >>]

PointOnlyPattern ==
    [els |-> <<Lit("POINT LOAD"), Lazy>> \o DecimalEls \o <<Ws, Lit("kN")>>,
     groups |-> << <<3, 5>> >>]

ExtractLiveLoadSeparate(p, text) ==
    LET m1 == Search(UniformOnlyPattern, text)
        m2 == Search(PointOnlyPattern, text)
        p1 == IF m1 = <<>> THEN p
              ELSE Put(p, "live_load_uniform",
                       FloatV(PyFloat(Group(UniformOnlyPattern, text, m1, 1))))
    IN  IF m2 = <<>> THEN p1
        ELSE Put(p1, "live_load_point",
                 FloatV(PyFloat(Group(PointOnlyPattern, text, m2, 1))))

ExtractLiveLoad(p, text) ==
    LET m == Search(LiveLoadPattern, text)
    IN  IF m = <<>> THEN p
        ELSE Put(Put(p, "live_load_uniform",
                     FloatV(PyFloat(Group(LiveLoadPattern, text, m, 1)))),
                 "live_load_point",
                 FloatV(PyFloat(Group(LiveLoadPattern, text, m, 2))))

\* Mutant of ExtractWind: a zero stored when the pattern does not match.
ExtractWindDefault(p, text) ==
    LET m == Search(WindPattern, text)
    IN  IF m = <<>> THEN Put(p, "wind_ultimate", IntV(0))
        ELSE Put(p, "wind_ultimate", IntV(PyInt(Group(WindPattern, text, m, 1))))

ExtractWind(p, text) ==
    LET m == Search(WindPattern, text)
    IN  IF m = <<>> THEN p
        ELSE Put(p, "wind_ultimate", IntV(PyInt(Group(WindPattern, text, m, 1))))

\* Mutant of ExtractWave: the millimetres divided by 100.
ExtractWaveHundred(p, text) ==
    LET m == Search(WavePattern, text)
    IN  IF m = <<>> THEN p
        ELSE Put(p, "wave_height",
                 FloatV(DivRound(PyInt(Group(WavePattern, text, m, 1)), 100)))

\* int(m.group(1)) / 1000.0
ExtractWave(p, text) ==
    LET m == Search(WavePattern, text)
    IN  IF m = <<>> THEN p
        ELSE Put(p, "wave_height",
                 FloatV(DivRound(PyInt(Group(WavePattern, text, m, 1)), 1000)))

ExtractVelocity(p, text) ==
    LET m == Search(VelocityPattern, text)
    IN  IF m = <<>> THEN p
        ELSE Put(p, "current_velocity",
                 FloatV(PyFloat(Group(VelocityPattern, text, m, 1))))

ExtractDebris(p, text) ==
    LET m == Search(DebrisPattern, text)
    IN  IF m = <<>> THEN p
        ELSE Put(Put(p, "debris_mat_depth",
                     FloatV(PyFloat(Group(DebrisPattern, text, m, 1)))),
                 "debris_log_mass",
                 FloatV(PyFloat(Group(DebrisPattern, text, m, 2))))

ExtractVesselLength(p, text) ==
    LET m == Search(LengthPattern, text)
    IN  IF m = <<>> THEN p
        ELSE Put(p, "vessel_length",
                 FloatV(PyFloat(Group(LengthPattern, text, m, 1))))

ExtractVesselBeam(p, text) ==
    LET m == Search(BeamPattern, text)
    IN  IF m = <<>> THEN p
        ELSE Put(p, "vessel_beam", FloatV(PyFloat(Group(BeamPattern, text, m, 1))))

\* int(m.group(1).replace(',', ''))
ExtractVesselMass(p, text) ==
    LET m == Search(MassPattern, text)
    IN  IF m = <<>> THEN p
        ELSE Put(p, "vessel_mass",
                 IntV(PyInt(Remove(Group(MassPattern, text, m, 1), ","))))

\* (int(m.group(1)) + int(m.group(2))) / 2
ExtractFreeboardDead(p, text) ==
    LET m == Search(FreeboardDeadPattern, text)
    IN  IF m = <<>> THEN p
        ELSE Put(p, "freeboard_dead",
                 FloatV(DivRound(PyInt(Group(FreeboardDeadPattern, text, m, 1))
                                 + PyInt(Group(FreeboardDeadPattern, text, m, 2)),
                                 2)))

ExtractFreeboardCritical(p, text) ==
    LET m == Search(FreeboardCriticalPattern, text)
    IN  IF m = <<>> THEN p
        ELSE Put(p, "freeboard_critical",
                 IntV(PyInt(Group(FreeboardCriticalPattern, text, m, 1))))

ExtractDeckSlope(p, text) ==
    LET m == Search(DeckSlopePattern, text)
    IN  IF m = <<>> THEN p
        ELSE Put(p, "deck_slope_max",
                 IntV(PyInt(Group(DeckSlopePattern, text, m, 1))))

ExtractConcreteStrength(p, text) ==
    LET m == Search(ConcreteStrengthPattern, text)
    IN  IF m = <<>> THEN p
        ELSE Put(p, "concrete_strength",
                 IntV(PyInt(Group(ConcreteStrengthPattern, text, m, 1))))

ExtractConcreteCover(p, text) ==
    LET m == Search(ConcreteCoverPattern, text)
    IN  IF m = <<>> THEN p
        ELSE Put(p, "concrete_cover",
                 IntV(PyInt(Group(ConcreteCoverPattern, text, m, 1))))

ExtractGalvanizing(p, text) ==
    LET m == Search(GalvanizingPattern, text)
    IN  IF m = <<>> THEN p
        ELSE Put(p, "steel_galvanizing",
                 IntV(PyInt(Group(GalvanizingPattern, text, m, 1))))

\* m.group(1).replace(" ", "")
ExtractAluminium(p, text) ==
    LET m == Search(AluminiumPattern, text)
    IN  IF m = <<>> THEN p
        ELSE Put(p, "aluminium_grade",
                 StrV(Remove(Group(AluminiumPattern, text, m, 1), " ")))

ExtractTimber(p, text) ==
    LET m == Search(TimberPattern, text)
    IN  IF m = <<>> THEN p
        ELSE Put(p, "timber_grade", StrV(Group(TimberPattern, text, m, 1)))

ExtractFixings(p, text) ==
    LET m == Search(FixingsPattern, text)
    IN  IF m = <<>> THEN p
        ELSE Put(p, "fixings_grade", StrV(Group(FixingsPattern, text, m, 1)))

ExtractScour(p, text) ==
    LET m == Search(ScourPattern, text)
    IN  IF m = <<>> THEN p
        ELSE Put(p, "scour_allowance",
                 IntV(PyInt(Group(ScourPattern, text, m, 1))))

ExtractTolerance(p, text) ==
    LET m == Search(TolerancePattern, text)
    IN  IF m = <<>> THEN p
        ELSE Put(p, "pile_tolerance",
                 IntV(PyInt(Group(TolerancePattern, text, m, 1))))

ExtractCohesion(p, text) ==
    LET m == Search(CohesionPattern, text)
    IN  IF m = <<>> THEN p
        ELSE Put(p, "soil_cohesion",
                 IntV(PyInt(Group(CohesionPattern, text, m, 1))))

\* params = {} followed by the twenty blocks.
ExtractParams(text) ==
    LET p1  == ExtractLiveLoad(<<>>, text)
        p2  == ExtractWind(p1, text)
        p3  == ExtractWave(p2, text)
        p4  == ExtractVelocity(p3, text)
        p5  == ExtractDebris(p4, text)
        p6  == ExtractVesselLength(p5, text)
        p7  == ExtractVesselBeam(p6, text)
        p8  == ExtractVesselMass(p7, text)
        p9  == ExtractFreeboardDead(p8, text)
        p10 == ExtractFreeboardCritical(p9, text)
        p11 == ExtractDeckSlope(p10, text)
        p12 == ExtractConcreteStrength(p11, text)
        p13 == ExtractConcreteCover(p12, text)
        p14 == ExtractGalvanizing(p13, text)
        p15 == ExtractAluminium(p14, text)
        p16 == ExtractTimber(p15, text)
        p17 == ExtractFixings(p16, text)
        p18 == ExtractScour(p17, text)
        p19 == ExtractTolerance(p18, text)
    IN  ExtractCohesion(p19, text)

\* The pattern that decides each key of params (lines 58-113).
FieldPattern ==
    [live_load_uniform  |-> LiveLoadPattern,
     live_load_point    |-> LiveLoadPattern,
     wind_ultimate      |-> WindPattern,
     wave_height        |-> WavePattern,
     current_velocity   |-> VelocityPattern,
     debris_mat_depth   |-> DebrisPattern,
     debris_log_mass    |-> DebrisPattern,
     vessel_length      |-> LengthPattern,
     vessel_beam        |-> BeamPattern,
     vessel_mass        |-> MassPattern,
     freeboard_dead     |-> FreeboardDeadPattern,
     freeboard_critical |-> FreeboardCriticalPattern,
     deck_slope_max     |-> DeckSlopePattern,
     concrete_strength  |-> ConcreteStrengthPattern,
     concrete_cover     |-> ConcreteCoverPattern,
     steel_galvanizing  |-> GalvanizingPattern,
     aluminium_grade    |-> AluminiumPattern,
     timber_grade       |-> TimberPattern,
     fixings_grade      |-> FixingsPattern,
     scour_allowance    |-> ScourPattern,
     pile_tolerance     |-> TolerancePattern,
     soil_cohesion      |-> CohesionPattern]

(***************************************************************************)
(* The compliance registry and loop, lines 125-166.                        *)
(***************************************************************************)
\* What a rule's lambda hands back: a bool, a str, or a raised TypeError.
PyBool(b) == [ty |-> "bool", b |-> b, s |-> ""]
PyStr(s) == [ty |-> "str", b |-> FALSE, s |-> s]
PyRaise == [ty |-> "raise", b |-> FALSE, s |-> "TypeError"]

\* v >= a/b, v <= a/b and v < a/b for an int or float v, where a/b is exactly a
\* float: an int is compared exactly, a float with the float a/b.
NumGe(v, a, b) == IF v.t = "float" THEN DLe(DivRound(a, b), v.f) ELSE v.n * b >= a
NumLe(v, a, b) == IF v.t = "float" THEN DLe(v.f, DivRound(a, b)) ELSE v.n * b <= a
NumLt(v, a, b) == IF v.t = "float" THEN DLt(v.f, DivRound(a, b)) ELSE v.n * b < a

\* lambda v: <test> if v is not None else False
IfNotNone(v, test) == PyBool(IF v.t # "none" THEN test ELSE FALSE)

\* Mutant of ConcreteCoverFunc: the None test made before the comparison.
ConcreteCoverFuncGuarded(v) ==
    IF v.t = "none" THEN PyStr("N/A")
    ELSE IF v.n >= 65 THEN PyStr("Compliant")
    ELSE IF v.n >= 50 THEN PyStr("Conditional")
    ELSE PyStr("Review")

\* Mutant of ConcreteCoverFunc: the reduced tier left out.
ConcreteCoverFuncTwoTier(v) ==
    IF v.t = "none" THEN PyRaise
    ELSE IF v.n >= 65 THEN PyStr("Compliant") ELSE PyStr("Review")

\* Line 136: "Compliant" if v >= 65 else ("Conditional" if v >= 50 else
\* "Review") if v is not None else "N/A".  Python reads it as
\* A if (v >= 65) else ((B) if (v is not None) else "N/A"): the comparison
\* v >= 65 comes first and raises TypeError when v is None.
ConcreteCoverFunc(v) ==
    IF v.t = "none" THEN PyRaise
    ELSE IF NumGe(v, 65, 1) THEN PyStr("Compliant")
    ELSE IF v.t # "none"
         THEN (IF NumGe(v, 50, 1) THEN PyStr("Conditional") ELSE PyStr("Review"))
         ELSE PyStr("N/A")

compliance_checks == <<
    [name |-> "Live load uniform", req |-> ">= 3.0 kPa", key |-> "live_load_uniform",
     ref |-> "AS 3962:2020 s2 & 4"],
    [name |-> "Live load point", req |-> ">= 4.5 kN", key |-> "live_load_point",
     ref |-> "AS 3962:2020 s4"],
    [name |-> "Wind ultimate", req |-> ">= 64 m/s", key |-> "wind_ultimate",
     ref |-> "AS/NZS 1170.2:2021 Cl 3.2"],
    [name |-> "Wave height", req |-> "<= 0.5 m", key |-> "wave_height",
     ref |-> "AS 3962:2020 s2.3.3"],
    [name |-> "Current velocity", req |-> "<= 1.5 m/s", key |-> "current_velocity",
     ref |-> "AS 3962:2020 s2"],
    [name |-> "Debris mat depth", req |-> ">= 1.0 m", key |-> "debris_mat_depth",
     ref |-> "AS 4997:2005 s3"],
    [name |-> "Freeboard (dead)", req |-> "300-600 mm", key |-> "freeboard_dead",
     ref |-> "AS 3962:2020 s3"],
    [name |-> "Freeboard (critical)", req |-> ">= 50 mm", key |-> "freeboard_critical",
     ref |-> "AS 4997:2005 s4"],
    [name |-> "Max deck slope", req |-> "< 10 deg", key |-> "deck_slope_max",
     ref |-> "AS 3962:2020 s3"],
    [name |-> "Concrete strength", req |-> ">= 40 MPa", key |-> "concrete_strength",
     ref |-> "AS 3600:2018 T4.3"],
    [name |-> "Concrete cover", req |-> "50 mm (C1); 65 mm (C2)", key |-> "concrete_cover",
     ref |-> "AS 3600:2018 T4.3"],
    [name |-> "Steel galvanizing", req |-> ">= 600 g/m2", key |-> "steel_galvanizing",
     ref |-> "AS 3962:2020 s5"],
    [name |-> "Aluminium grade", req |-> "6061-T6", key |-> "aluminium_grade",
     ref |-> "AS 1664"],
    [name |-> "Timber grade", req |-> "F17", key |-> "timber_grade",
     ref |-> "AS 1720.1"],
    [name |-> "Fixings", req |-> "316 SS", key |-> "fixings_grade",
     ref |-> "AS 3962:2020 s5"],
    [name |-> "Max scour allowance", req |-> "300-1000 mm", key |-> "scour_allowance",
     ref |-> "AS 4997:2005 s3"],
    [name |-> "Pile tolerance", req |-> "<= 100 mm", key |-> "pile_tolerance",
     ref |-> "AS 3962:2020 s4"],
    [name |-> "Soil cohesion", req |-> ">= 100 kPa", key |-> "soil_cohesion",
     ref |-> "AS 4997:2005 s4"],
    [name |-> "Vessel mass", req |-> "<= 33,000 kg", key |-> "vessel_mass",
     ref |-> "AS 3962:2020 s3"] >>

\* c["func"](v) for the rule keyed on key (the "func" entries of lines 126-144).
Func(key, v) ==
    CASE key = "live_load_uniform"  -> IfNotNone(v, NumGe(v, 3, 1))
      [] key = "live_load_point"    -> IfNotNone(v, NumGe(v, 9, 2))
      [] key = "wind_ultimate"      -> IfNotNone(v, NumGe(v, 64, 1))
      [] key = "wave_height"        -> IfNotNone(v, NumLe(v, 1, 2))
      [] key = "current_velocity"   -> IfNotNone(v, NumLe(v, 3, 2))
      [] key = "debris_mat_depth"   -> IfNotNone(v, NumGe(v, 1, 1))
      [] key = "freeboard_dead"     -> IfNotNone(v, NumGe(v, 300, 1) /\ NumLe(v, 600, 1))
      [] key = "freeboard_critical" -> IfNotNone(v, NumGe(v, 50, 1))
      [] key = "deck_slope_max"     -> IfNotNone(v, NumLt(v, 10, 1))
      [] key = "concrete_strength"  -> IfNotNone(v, NumGe(v, 40, 1))
      [] key = "concrete_cover"     -> ConcreteCoverFunc(v)
      [] key = "steel_galvanizing"  -> IfNotNone(v, NumGe(v, 600, 1))
      [] key = "aluminium_grade"    -> IfNotNone(v, v.s = <<"6", "0", "6", "1", "T", "6">>)
      [] key = "timber_grade"       -> IfNotNone(v, v.s = <<"F", "1", "7">>)
      [] key = "fixings_grade"      -> IfNotNone(v, Contains(v.s, <<"3", "1", "6">>))
      [] key = "scour_allowance"    -> IfNotNone(v, NumGe(v, 300, 1) /\ NumLe(v, 1000, 1))
      [] key = "pile_tolerance"     -> IfNotNone(v, NumLe(v, 100, 1))
      [] key = "soil_cohesion"      -> IfNotNone(v, NumGe(v, 100, 1))
      [] key = "vessel_mass"        -> IfNotNone(v, NumLe(v, 33000, 1))

\* Line 153: "Compliant" if r is True else ("Review" if r is False else r if
\* isinstance(r, str) else "N/A").
StatusOf(r) ==
    IF r.ty = "bool" /\ r.b THEN "Compliant"
    ELSE IF r.ty = "bool" /\ ~r.b THEN "Review"
    ELSE IF r.ty = "str" THEN r.s
    ELSE "N/A"

NotAvailable == StrV(<<"N", "/", "A">>)

\* Lines 160-166: the row appended for rule c with value v.
Row(c, v, status) ==
    [Check |-> c.name, Required |-> c.req,
     DesignValue |-> IF v.t # "none" THEN v ELSE NotAvailable,
     Status |-> status, Reference |-> c.ref]

\* One iteration of the loop of lines 151-166 on the loop state
\* st = [rows, nc, cc, rc, raised], for the rule after the last row.
CheckOne(st, p) ==
    LET c      == compliance_checks[Len(st.rows) + 1]
        v      == Get(p, c.key)
        r      == Func(c.key, v)
        status == StatusOf(r)
        isRev  == IF status = "Review" THEN 1 ELSE 0
        isCond == IF status = "Conditional" THEN 1 ELSE 0
    IN  IF r.ty = "raise" THEN [st EXCEPT !.raised = TRUE]
        ELSE [rows   |-> Append(st.rows, Row(c, v, status)),
              nc     |-> st.nc + isRev + isCond,
              cc     |-> st.cc + isCond,
              rc     |-> st.rc + isRev,
              raised |-> FALSE]

\* Lines 147-150.
LoopStart == [rows |-> <<>>, nc |-> 0, cc |-> 0, rc |-> 0, raised |-> FALSE]

\* The whole loop on the map p: it ends after the last rule or at the first
\* exception.
RECURSIVE RunFrom(_, _)
RunFrom(st, p) ==
    IF st.raised \/ Len(st.rows) = Len(compliance_checks) THEN st
    ELSE RunFrom(CheckOne(st, p), p)

RunChecks(p) == RunFrom(LoopStart, p)

\* Lines 181-185.
NonCompliant(rows) == SelectSeq(rows, LAMBDA r : r.Status \in {"Review", "Conditional"})

\* Mutant of RiskLevel: the Medium band ended one count early.
RiskLevelEarly(n) == IF n <= 5 THEN "Low" ELSE IF n < 9 THEN "Medium" ELSE "High"

RiskLevel(n) == IF n <= 5 THEN "Low" ELSE IF n <= 9 THEN "Medium" ELSE "High"

\* Mutant of SummaryText: only the Review rows taken off the Compliant figure.
SummaryTextReviewOnly(rows) ==
    LET rc == Len(SelectSeq(rows, LAMBDA r : r.Status = "Review"))
    IN  [risk        |-> RiskLevel(Len(NonCompliant(rows))),
         total       |-> Len(rows),
         compliant   |-> Len(rows) - rc,
         conditional |-> Len(SelectSeq(rows, LAMBDA r : r.Status = "Conditional")),
         review      |-> rc]

\* Lines 187-194: the figures of summary_text.
SummaryText(rows) ==
    LET nc == Len(NonCompliant(rows))
    IN  [risk        |-> RiskLevel(nc),
         total       |-> Len(rows),
         compliant   |-> Len(rows) - nc,
         conditional |-> Len(SelectSeq(rows, LAMBDA r : r.Status = "Conditional")),
         review      |-> Len(SelectSeq(rows, LAMBDA r : r.Status = "Review"))]

NoSummary == [risk |-> "", total |-> 0, compliant |-> 0, conditional |-> 0, review |-> 0]

(***************************************************************************)
(* The documents: up to MaxPhrases blocks of drawing notes, each starting  *)
(* on its own line: a single phrase, or the general notes that state every *)
(* parameter.                                                              *)
(***************************************************************************)
\* "a.b", and "... a.b unit" with single spaces.
Dec(a, b) == <<N(a), W("."), N(b)>>

\* The lexemes toks separated by single spaces.
RECURSIVE Spaced(_)
Spaced(toks) ==
    IF Len(toks) <= 1 THEN toks
    ELSE <<Head(toks), SP>> \o Spaced(Tail(toks))

PhraseList == <<
    \* LIVE LOAD 3.5 kPa OR POINT LOAD 5.0 kN
    Spaced(<<W("LIVE LOAD")>>) \o <<SP>> \o Dec(<<3>>, <<5>>) \o <<SP>>
        \o Spaced(<<W("kPa"), W("OR"), W("POINT LOAD")>>) \o <<SP>>
        \o Dec(<<5>>, <<0>>) \o <<SP, W("kN")>>,
    \* LIVE LOAD 2.5 kPa OR POINT LOAD 4.0 kN
    Spaced(<<W("LIVE LOAD")>>) \o <<SP>> \o Dec(<<2>>, <<5>>) \o <<SP>>
        \o Spaced(<<W("kPa"), W("OR"), W("POINT LOAD")>>) \o <<SP>>
        \o Dec(<<4>>, <<0>>) \o <<SP, W("kN")>>,
    \* LIVE LOAD 3.0 kPa
    <<W("LIVE LOAD"), SP>> \o Dec(<<3>>, <<0>>) \o <<SP, W("kPa")>>,
    \* POINT LOAD 4.5 kN
    <<W("POINT LOAD"), SP>> \o Dec(<<4>>, <<5>>) \o <<SP, W("kN")>>,
    \* V100 = 55 m/s
    Spaced(<<W("V100"), W("="), N(<<5, 5>>), W("m/s")>>),
    \* V100 = 64 m/s
    Spaced(<<W("V100"), W("="), N(<<6, 4>>), W("m/s")>>),
    \* WAVE HEIGHT < 500mm
    <<W("WAVE HEIGHT"), SP, W("<"), SP, N(<<5, 0, 0>>), W("mm")>>,
    \* WAVE HEIGHT < 501 mm
    Spaced(<<W("WAVE HEIGHT"), W("<"), N(<<5, 0, 1>>), W("mm")>>),
    \* WAVE HEIGHT < 1001mm
    <<W("WAVE HEIGHT"), SP, W("<"), SP, N(<<1, 0, 0, 1>>), W("mm")>>,
    \* VELOCITY < 1.5 m/s
    <<W("VELOCITY"), SP, W("<"), SP>> \o Dec(<<1>>, <<5>>) \o <<SP, W("m/s")>>,
    \* VELOCITY < 1.6 m/s
    <<W("VELOCITY"), SP, W("<"), SP>> \o Dec(<<1>>, <<6>>) \o <<SP, W("m/s")>>,
    \* DEBRIS LOADS 1.0 m MAT 2.0 TONNE LOG
    <<W("DEBRIS LOADS"), SP>> \o Dec(<<1>>, <<0>>) \o <<SP, W("m"), SP, W("MAT"), SP>>
        \o Dec(<<2>>, <<0>>) \o <<SP, W("TONNE"), SP, W("LOG")>>,
    \* DEBRIS LOADS 0.9 m MAT
    <<W("DEBRIS LOADS"), SP>> \o Dec(<<0>>, <<9>>) \o <<SP, W("m"), SP, W("MAT")>>,
    \* LENGTH = 12.0 m
    <<W("LENGTH"), SP, W("="), SP>> \o Dec(<<1, 2>>, <<0>>) \o <<SP, W("m")>>,
    \* BEAM = 4.25 m
    <<W("BEAM"), SP, W("="), SP>> \o Dec(<<4>>, <<2, 5>>) \o <<SP, W("m")>>,
    \* MASS = 33,000 kg
    <<W("MASS"), SP, W("="), SP, N(<<3, 3>>), W(","), N(<<0, 0, 0>>), SP, W("kg")>>,
    \* MASS = 33,001 kg
    <<W("MASS"), SP, W("="), SP, N(<<3, 3>>), W(","), N(<<0, 0, 1>>), SP, W("kg")>>,
    \* DEAD LOAD ONLY = 300-601mm
    <<W("DEAD LOAD ONLY"), SP, W("="), SP, N(<<3, 0, 0>>), W("-"), N(<<6, 0, 1>>),
      W("mm")>>,
    \* DEAD LOAD ONLY = 200-399mm
    <<W("DEAD LOAD ONLY"), SP, W("="), SP, N(<<2, 0, 0>>), W("-"), N(<<3, 9, 9>>),
      W("mm")>>,
    \* MIN 50 mm
    Spaced(<<W("MIN"), N(<<5, 0>>), W("mm")>>),
    \* MIN 49 mm
    Spaced(<<W("MIN"), N(<<4, 9>>), W("mm")>>),
    \* DECK SLOPE = 1:9
    <<W("DECK SLOPE"), SP, W("="), SP, W("1:"), N(<<9>>)>>,
    \* DECK SLOPE = 1:10
    <<W("DECK SLOPE"), SP, W("="), SP, W("1:"), N(<<1, 0>>)>>,
    \* PONTOON CONCRETE 40 MPa
    Spaced(<<W("PONTOON CONCRETE"), N(<<4, 0>>), W("MPa")>>),
    \* PONTOON CONCRETE 39 MPa
    Spaced(<<W("PONTOON CONCRETE"), N(<<3, 9>>), W("MPa")>>),
    \* COVER 58 mm
    Spaced(<<W("COVER"), N(<<5, 8>>), W("mm")>>),
    \* COVER 65 mm
    Spaced(<<W("COVER"), N(<<6, 5>>), W("mm")>>),
    \* COVER 49 mm
    Spaced(<<W("COVER"), N(<<4, 9>>), W("mm")>>),
    \* COATING MASS 600 g/sqm
    Spaced(<<W("COATING MASS"), N(<<6, 0, 0>>), W("g/sqm")>>),
    \* COATING MASS 599 g/sqm
    Spaced(<<W("COATING MASS"), N(<<5, 9, 9>>), W("g/sqm")>>),
    \* MINIMUM GRADE 6061 T6
    <<W("MINIMUM GRADE"), SP, N(<<6, 0, 6, 1>>), SP, W("T"), N(<<6>>)>>,
    \* MINIMUM GRADE 6061-T6
    <<W("MINIMUM GRADE"), SP, N(<<6, 0, 6, 1>>), W("-"), W("T"), N(<<6>>)>>,
    \* MINIMUM GRADE 6061T6
    <<W("MINIMUM GRADE"), SP, N(<<6, 0, 6, 1>>), W("T"), N(<<6>>)>>,
    \* MINIMUM GRADE 6063 T5
    <<W("MINIMUM GRADE"), SP, N(<<6, 0, 6, 3>>), SP, W("T"), N(<<5>>)>>,
    \* MINIMUM F17
    <<W("MINIMUM"), SP, W("F"), N(<<1, 7>>)>>,
    \* MINIMUM F14
    <<W("MINIMUM"), SP, W("F"), N(<<1, 4>>)>>,
    \* FIXINGS TO BE 316 GRADE
    Spaced(<<W("FIXINGS TO BE"), N(<<3, 1, 6>>), W("GRADE")>>),
    \* FIXINGS TO BE 304 GRADE
    Spaced(<<W("FIXINGS TO BE"), N(<<3, 0, 4>>), W("GRADE")>>),
    \* MAX 300mm SCOUR
    <<W("MAX"), SP, N(<<3, 0, 0>>), W("mm"), SP, W("SCOUR")>>,
    \* MAX 1001mm SCOUR
    <<W("MAX"), SP, N(<<1, 0, 0, 1>>), W("mm"), SP, W("SCOUR")>>,
    \* TOLERANCE 100mm
    <<W("TOLERANCE"), SP, N(<<1, 0, 0>>), W("mm")>>,
    \* TOLERANCE 101mm
    <<W("TOLERANCE"), SP, N(<<1, 0, 1>>), W("mm")>>,
    \* COHESION = 100kPa
    <<W("COHESION"), SP, W("="), SP, N(<<1, 0, 0>>), W("kPa")>>,
    \* COHESION = 99kPa
    <<W("COHESION"), SP, W("="), SP, N(<<9, 9>>), W("kPa")>>,
    \* COVER 50 mm
    Spaced(<<W("COVER"), N(<<5, 0>>), W("mm")>>),
    \* COVER 64 mm
    Spaced(<<W("COVER"), N(<<6, 4>>), W("mm")>>)
    >>


\* The phrases of ps, one per line.
RECURSIVE Lines(_)
Lines(ps) ==
    IF ps = <<>> THEN <<>>
    ELSE IF Len(ps) = 1 THEN ps[1]
    ELSE ps[1] \o <<NL>> \o Lines(Tail(ps))

\* General notes of a design that states every parameter once.
GeneralNotes ==
    Lines(<< PhraseList[1], PhraseList[6], PhraseList[7], PhraseList[10],
             PhraseList[12], PhraseList[14], PhraseList[15], PhraseList[16],
             PhraseList[18], PhraseList[20], PhraseList[22], PhraseList[24],
             PhraseList[27], PhraseList[29], PhraseList[31], PhraseList[35],
             PhraseList[37], PhraseList[39], PhraseList[41], PhraseList[43] >>)

\* General notes of a design that misses several requirements.
MarginalNotes ==
    Lines(<< PhraseList[2], PhraseList[5], PhraseList[8], PhraseList[11],
             PhraseList[12], PhraseList[14], PhraseList[15], PhraseList[16],
             PhraseList[18], PhraseList[20], PhraseList[22], PhraseList[24],
             PhraseList[26], PhraseList[29], PhraseList[31], PhraseList[35],
             PhraseList[37], PhraseList[39], PhraseList[41], PhraseList[43] >>)

\* General notes of a design that misses nine requirements.
PoorNotes ==
    Lines(<< PhraseList[2], PhraseList[5], PhraseList[8], PhraseList[11],
             PhraseList[12], PhraseList[14], PhraseList[15], PhraseList[16],
             PhraseList[18], PhraseList[20], PhraseList[22], PhraseList[25],
             PhraseList[26], PhraseList[30], PhraseList[34], PhraseList[35],
             PhraseList[37], PhraseList[39], PhraseList[41], PhraseList[43] >>)

Phrases ==
    {PhraseList[x] : x \in DOMAIN PhraseList}
        \cup {GeneralNotes, MarginalNotes, PoorNotes}

Texts == {Lines(ps) : ps \in UNION {[1..n -> Phrases] : n \in 0..MaxPhrases}}

(***************************************************************************)
(* One run of the script per uploaded document.                            *)
(***************************************************************************)
VARIABLES
    pc,                   \* where the run of the script is
    full_text,            \* line 45-48
    params,               \* line 56
    table_data,           \* line 147
    non_compliant_count,  \* line 148
    conditional_count,    \* line 149
    review_count,         \* line 150
    summary_text,         \* lines 185-194: risk level and reported figures
    error                 \* line 425: st.error was shown

vars == <<pc, full_text, params, table_data, non_compliant_count,
          conditional_count, review_count, summary_text, error>>

\* Line 427-428: no file uploaded yet.
Init ==
    /\ pc = "idle"
    /\ full_text = <<>>
    /\ params = <<>>
    /\ table_data = <<>>
    /\ non_compliant_count = 0
    /\ conditional_count = 0
    /\ review_count = 0
    /\ summary_text = NoSummary
    /\ error = FALSE

\* Lines 42-53: a PDF is uploaded and its text read.
Upload ==
    /\ pc = "idle"
    /\ \E text \in Texts : full_text' = text
    /\ pc' = "extract"
    /\ UNCHANGED <<params, table_data, non_compliant_count, conditional_count,
                   review_count, summary_text, error>>

\* Lines 56-114, and the loop variables of lines 147-150.
Extract ==
    /\ pc = "extract"
    /\ params' = ExtractParams(full_text)
    /\ table_data' = LoopStart.rows
    /\ non_compliant_count' = LoopStart.nc
    /\ conditional_count' = LoopStart.cc
    /\ review_count' = LoopStart.rc
    /\ pc' = "check"
    /\ UNCHANGED <<full_text, summary_text, error>>

LoopState ==
    [rows |-> table_data, nc |-> non_compliant_count, cc |-> conditional_count,
     rc |-> review_count, raised |-> FALSE]

\* Lines 151-166: one iteration of the loop that appends a row.
CheckRule ==
    /\ pc = "check"
    /\ Len(table_data) < Len(compliance_checks)
    /\ LET st == CheckOne(LoopState, params)
       IN  /\ ~st.raised
           /\ table_data' = st.rows
           /\ non_compliant_count' = st.nc
           /\ conditional_count' = st.cc
           /\ review_count' = st.rc
    /\ UNCHANGED <<pc, full_text, params, summary_text, error>>

\* Lines 153 and 424-425: the rule's lambda raises, the run ends in st.error.
CheckRaises ==
    /\ pc = "check"
    /\ Len(table_data) < Len(compliance_checks)
    /\ CheckOne(LoopState, params).raised
    /\ pc' = "error"
    /\ error' = TRUE
    /\ UNCHANGED <<full_text, params, table_data, non_compliant_count,
                   conditional_count, review_count, summary_text>>

\* Lines 168-194: the table is shown, the counts are recomputed from it and the
\* summary is written.
Summarise ==
    /\ pc = "check"
    /\ Len(table_data) = Len(compliance_checks)
    /\ non_compliant_count' = Len(NonCompliant(table_data))
    /\ review_count' = SummaryText(table_data).review
    /\ conditional_count' = SummaryText(table_data).conditional
    /\ summary_text' = SummaryText(table_data)
    /\ pc' = "done"
    /\ UNCHANGED <<full_text, params, table_data, error>>

\* The file is removed: the script runs again from the top without one.
Rerun ==
    /\ pc \in {"done", "error"}
    /\ pc' = "idle"
    /\ full_text' = <<>>
    /\ params' = <<>>
    /\ table_data' = <<>>
    /\ non_compliant_count' = 0
    /\ conditional_count' = 0
    /\ review_count' = 0
    /\ summary_text' = NoSummary
    /\ error' = FALSE

Next == Upload \/ Extract \/ CheckRule \/ CheckRaises \/ Summarise \/ Rerun

Spec == Init /\ [][Next]_vars

(***************************************************************************)
(* Properties.                                                             *)
(***************************************************************************)
\* The keys the compliance rules read, in registry order.
RuleKey(i) == compliance_checks[i].key

\* The run of the script has ended: the summary is written, or st.error shown.
Ended == pc \in {"done", "error"}

\* The rows recorded for the rule keyed on key (none while it has no row).
RowsOf(key) == {i \in 1..Len(table_data) : RuleKey(i) = key}

\* C1: for every extracted field map the evaluation pass completes and
\* records a result for every rule; a missing field never aborts the
\* evaluation of the other rules and never surfaces as an engine-level error.
C1_EvaluationCompletes ==
    /\ ~error
    /\ pc # "error"
    /\ pc = "done" => Len(table_data) = Len(compliance_checks)

\* C2: a rule whose field key is absent from the extracted map is reported
\* with status "N/A" (not Compliant, Conditional or Review); in particular a
\* text with no concrete-cover phrase yields "N/A" for the concrete-cover rule.
C2_AbsentIsNotApplicable ==
    /\ \A i \in 1..Len(table_data) :
           RuleKey(i) \notin DOMAIN params => table_data[i].Status = "N/A"
    /\ (Ended /\ "concrete_cover" \notin DOMAIN params)
           => \E i \in RowsOf("concrete_cover") : table_data[i].Status = "N/A"

\* The map p without the key k.
Without(p, k) == [x \in DOMAIN p \ {k} |-> p[x]]

\* C3: rule independence: evaluating the map with one key k removed gives,
\* for every rule not keyed on k, the same result as evaluating the map itself.
C3_RuleIndependence ==
    Ended =>
        \A k \in DOMAIN params :
            LET other == RunChecks(Without(params, k)).rows
            IN  \A i \in 1..Len(compliance_checks) :
                    RuleKey(i) # k =>
                        /\ i <= Len(table_data) <=> i <= Len(other)
                        /\ i <= Len(table_data) => other[i] = table_data[i]

\* C4: the result table of an evaluation has exactly one row per rule of the
\* registry, in registry order, each with the rule's name, requirement and
\* reference; no rule is omitted because its field is missing (the row of a
\* missing field shows the design value "N/A").
C4_OneRowPerRule ==
    Ended =>
        /\ Len(table_data) = Len(compliance_checks)
        /\ \A i \in 1..Len(table_data) :
               /\ table_data[i].Check = compliance_checks[i].name
               /\ table_data[i].Required = compliance_checks[i].req
               /\ table_data[i].Reference = compliance_checks[i].ref
               /\ RuleKey(i) \notin DOMAIN params
                      => table_data[i].DesignValue = NotAvailable

\* The floats the requirements name.
Req ==
    [half |-> DivRound(1, 2), one |-> DFromInt(1), oneHalf |-> DivRound(3, 2),
     three |-> DFromInt(3), fourHalf |-> DivRound(9, 2),
     f300 |-> DFromInt(300), f600 |-> DFromInt(600)]

\* The comparison each non-tiered rule declares in its "req" column.
Satisfies(key, v) ==
    CASE key = "live_load_uniform"  -> v.t = "float" /\ DLe(Req.three, v.f)
      [] key = "live_load_point"    -> v.t = "float" /\ DLe(Req.fourHalf, v.f)
      [] key = "wind_ultimate"      -> v.t = "int" /\ v.n >= 64
      [] key = "wave_height"        -> v.t = "float" /\ DLe(v.f, Req.half)
      [] key = "current_velocity"   -> v.t = "float" /\ DLe(v.f, Req.oneHalf)
      [] key = "debris_mat_depth"   -> v.t = "float" /\ DLe(Req.one, v.f)
      [] key = "freeboard_dead"     -> v.t = "float" /\ DLe(Req.f300, v.f)
                                                      /\ DLe(v.f, Req.f600)
      [] key = "freeboard_critical" -> v.t = "int" /\ v.n >= 50
      [] key = "deck_slope_max"     -> v.t = "int" /\ v.n < 10
      [] key = "concrete_strength"  -> v.t = "int" /\ v.n >= 40
      [] key = "steel_galvanizing"  -> v.t = "int" /\ v.n >= 600
      [] key = "aluminium_grade"    -> v.s = <<"6", "0", "6", "1", "T", "6">>
      [] key = "timber_grade"       -> v.s = <<"F", "1", "7">>
      [] key = "fixings_grade"      -> \E i \in 1..(Len(v.s) - 2) :
                                           /\ v.s[i] = "3"
                                           /\ v.s[i + 1] = "1"
                                           /\ v.s[i + 2] = "6"
      [] key = "scour_allowance"    -> v.t = "int" /\ v.n >= 300 /\ v.n <= 1000
      [] key = "pile_tolerance"     -> v.t = "int" /\ v.n <= 100
      [] key = "soil_cohesion"      -> v.t = "int" /\ v.n >= 100
      [] key = "vessel_mass"        -> v.t = "int" /\ v.n <= 33000

\* Every status recorded for a non-tiered rule whose field is present is
\* Compliant exactly when the declared comparison holds, and Review otherwise.
NonTieredRecordedRight ==
    \A i \in 1..Len(table_data) :
        (RuleKey(i) # "concrete_cover" /\ RuleKey(i) \in DOMAIN params) =>
            table_data[i].Status =
                IF Satisfies(RuleKey(i), params[RuleKey(i)])
                THEN "Compliant" ELSE "Review"

\* C5: for each of the 18 non-tiered rules, whenever the rule's field is
\* present the run records a status for the rule, and that status is
\* Compliant exactly when the value satisfies the rule's declared comparison
\* and Review otherwise (never Conditional or N/A).
C5_NonTieredStatus ==
    /\ NonTieredRecordedRight
    /\ Ended =>
           \A i \in 1..Len(compliance_checks) :
               (RuleKey(i) # "concrete_cover" /\ RuleKey(i) \in DOMAIN params)
                   => i <= Len(table_data)

\* C6: for every present integer concrete_cover value v the status is
\* Compliant if v >= 65, Conditional if 50 <= v < 65 and Review if v < 50.
C6_TieredCover ==
    \A i \in RowsOf("concrete_cover") :
        "concrete_cover" \in DOMAIN params =>
            LET v == params["concrete_cover"]
            IN  /\ v.t = "int"
                /\ table_data[i].Status =
                       IF v.n >= 65 THEN "Compliant"
                       ELSE IF v.n >= 50 THEN "Conditional"
                       ELSE "Review"

\* "COVER 58 mm" yields Conditional.
C6_Witness ==
    /\ pc = "done"
    /\ full_text = PhraseList[26]
    /\ params["concrete_cover"] = IntV(58)
    /\ \E i \in RowsOf("concrete_cover") : table_data[i].Status = "Conditional"

\* The extraction has just been done.
JustExtracted == pc = "check" /\ table_data = <<>>

\* C7: after extraction live_load_uniform is present iff live_load_point is,
\* and debris_mat_depth iff debris_log_mass; a text in which the compound
\* phrase does not match as a whole sets neither field of the pair.
C7_CompoundBothOrNeither ==
    /\ pc \in {"check", "done", "error"} =>
           /\ "live_load_uniform" \in DOMAIN params
                  <=> "live_load_point" \in DOMAIN params
           /\ "debris_mat_depth" \in DOMAIN params
                  <=> "debris_log_mass" \in DOMAIN params
    /\ JustExtracted =>
           /\ Search(LiveLoadPattern, full_text) = <<>>
                  => DOMAIN params \cap {"live_load_uniform", "live_load_point"} = {}
           /\ Search(DebrisPattern, full_text) = <<>>
                  => DOMAIN params \cap {"debris_mat_depth", "debris_log_mass"} = {}

\* The text "LIVE LOAD 3.0 kPa" alone, followed by "DEBRIS LOADS 0.9 m MAT"
\* alone: four halves missing, no field set.
C7_Witness ==
    /\ JustExtracted
    /\ full_text = Lines(<<PhraseList[3], PhraseList[13]>>)
    /\ params = <<>>

\* C8: after extraction a key is in the map iff its pattern matched; an
\* unmatched field is absent (no zero, empty-string or null placeholder), and
\* the extraction goes through whatever fields fail to match.
C8_TriStateAbsence ==
    /\ [][pc = "extract" => (pc' = "check" /\ ~error')]_vars
    /\ [](JustExtracted =>
             /\ DOMAIN params \subseteq DOMAIN FieldPattern
             /\ \A key \in DOMAIN FieldPattern :
                    key \in DOMAIN params
                        <=> Search(FieldPattern[key], full_text) # <<>>
             /\ \A key \in DOMAIN params :
                    params[key] \notin {NoneV, IntV(0), FloatV(DZero), StrV(<<>>)})

\* "V100 = 55 m/s" alone: one key present, every other absent.
C8_Witness ==
    /\ JustExtracted
    /\ full_text = PhraseList[5]
    /\ DOMAIN params = {"wind_ultimate"}

\* Number of rows with the status st.
Count(st) == Cardinality({i \in 1..Len(table_data) : table_data[i].Status = st})

\* C9: in every completed evaluation the reported Compliant, Conditional and
\* Review figures equal the numbers of rows with that status, and the
\* per-status counts (N/A rows included) add up to the total of items checked.
C9_SummaryCounts ==
    /\ pc = "done" =>
           /\ summary_text.total = Len(table_data)
           /\ summary_text.compliant = Count("Compliant")
           /\ summary_text.conditional = Count("Conditional")
           /\ summary_text.review = Count("Review")
           /\ Count("Compliant") + Count("Conditional") + Count("Review")
                  + Count("N/A") = summary_text.total
    /\ pc \in {"check", "done"} =>
           /\ review_count = Count("Review")
           /\ conditional_count = Count("Conditional")
           /\ non_compliant_count = Count("Review") + Count("Conditional")

\* A completed evaluation with rows of all three statuses.
C9_Witness ==
    /\ pc = "done"
    /\ summary_text.conditional = 1
    /\ summary_text.review > 0
    /\ summary_text.compliant > 0

\* The float after x.
DSucc(x) ==
    LET inc == IncBits(x.m)
    IN  IF inc.c = 1
        THEN [z |-> FALSE, e |-> x.e + 1, m |-> <<1>> \o SubSeq(inc.m, 1, 52)]
        ELSE [z |-> FALSE, e |-> x.e, m |-> inc.m]

\* x and y are the same float or neighbours.
WithinOneUlp(x, y) == x = y \/ DSucc(x) = y \/ x = DSucc(y)

\* The integer n captured by "WAVE HEIGHT < n mm".
WaveMillimetres ==
    PyInt(Group(WavePattern, full_text, Search(WavePattern, full_text), 1))

WaveExtracted == JustExtracted /\ "wave_height" \in DOMAIN params

\* "WAVE HEIGHT < 500mm" yields 0.5, which the rule rates Compliant.
WaveFiveHundred ==
    \A i \in RowsOf("wave_height") :
        (Search(WavePattern, full_text) # <<>> /\ WaveMillimetres = 500) =>
            /\ params["wave_height"] = FloatV(Req.half)
            /\ table_data[i].Status = "Compliant"

\* C10 as stated: the extracted wave_height is n/1000 and multiplying it by
\* 1000 gives back n exactly.
C10_WaveRoundTripExact ==
    /\ WaveExtracted =>
           /\ params["wave_height"] = FloatV(DivRound(WaveMillimetres, 1000))
           /\ MulRound(params["wave_height"].f, 1000) = DFromInt(WaveMillimetres)
    /\ WaveFiveHundred

\* C10 amended: the extracted wave_height is the float n/1000 and multiplying
\* it by 1000 gives back n to within one unit in the last place.
C10_WaveRoundTripWithinUlp ==
    /\ WaveExtracted =>
           /\ params["wave_height"] = FloatV(DivRound(WaveMillimetres, 1000))
           /\ WithinOneUlp(MulRound(params["wave_height"].f, 1000),
                           DFromInt(WaveMillimetres))
    /\ WaveFiveHundred

\* "WAVE HEIGHT < 1001mm": 1.001 * 1000 is not 1001.
C10_Witness ==
    /\ WaveExtracted
    /\ WaveMillimetres = 1001
    /\ MulRound(params["wave_height"].f, 1000) # DFromInt(1001)

\* The renderings of the aluminium grade: "6061 T6", "6061-T6", "6061T6".
AluminiumRenderings == {PhraseList[31], PhraseList[32], PhraseList[33]}

\* C11: "MINIMUM GRADE 6061 T6", "MINIMUM GRADE 6061-T6" and "MINIMUM GRADE
\* 6061T6" all extract the same canonical aluminium_grade "6061T6", and the
\* aluminium-grade rule rates each of them Compliant.
C11_GradeCanonical ==
    \A r \in AluminiumRenderings :
        /\ (JustExtracted /\ full_text = Lines(<<r>>)) =>
               /\ "aluminium_grade" \in DOMAIN params
               /\ params["aluminium_grade"] = StrV(<<"6", "0", "6", "1", "T", "6">>)
        /\ (pc = "done" /\ full_text = Lines(<<r, PhraseList[27]>>)) =>
               \A i \in RowsOf("aluminium_grade") :
                   table_data[i].Status = "Compliant"

\* The bands in rising order.
BandRank(b) == CASE b = "Low" -> 1 [] b = "Medium" -> 2 [] b = "High" -> 3

\* The band the claim gives to a non-compliant count.
BandOf(n) ==
    CASE n <= 5             -> "Low"
      [] n >= 6 /\ n <= 9   -> "Medium"
      [] n >= 10            -> "High"

\* The band never decreases as the count increases.
BandMonotone ==
    \A m, n \in 0..Len(compliance_checks) :
        m <= n => BandRank(BandOf(m)) <= BandRank(BandOf(n))

\* C12: the reported risk level is a function of the number of rows with
\* status Review or Conditional alone: Low when it is <= 5, Medium when it is
\* 6 to 9, High when it is >= 10; the band never decreases as the count grows.
C12_RiskBanding ==
    /\ BandMonotone
    /\ pc = "done" =>
           summary_text.risk = BandOf(Count("Review") + Count("Conditional"))

\* A completed evaluation with nine non-compliant rows is rated Medium.
C12_Witness ==
    /\ pc = "done"
    /\ Count("Review") + Count("Conditional") = 9
    /\ summary_text.risk = "Medium"

\* C13: every recorded status is Compliant, Conditional or Review and never
\* "N/A": a boolean rule whose field is absent is rated Review, and the
\* concrete-cover rule records no status at all for an absent field.
C13_NeverNotApplicable ==
    \A i \in 1..Len(table_data) :
        /\ table_data[i].Status \in {"Compliant", "Conditional", "Review"}
        /\ RuleKey(i) \notin DOMAIN params =>
               /\ RuleKey(i) # "concrete_cover"
               /\ table_data[i].Status = "Review"
               /\ table_data[i].DesignValue = NotAvailable

\* A completed evaluation of "COVER 65 mm" alone: eighteen absent fields,
\* eighteen Review rows.
C13_Witness ==
    /\ pc = "done"
    /\ DOMAIN params = {"concrete_cover"}
    /\ Count("Review") = 18
    /\ Count("Compliant") = 1

====
